---- MODULE Spec2Model ----
(***************************************************************************)
(* The in-memory security event store of server/routes/security-events.ts: *)
(* the module-level array securityEvents, the setInterval producer that    *)
(* unshifts one generated event every 5000 ms and keeps the first 100, and *)
(* the two request handlers getSecurityEvents and addSecurityEvent.        *)
(*                                                                         *)
(* Node runs every callback and every handler to completion on one thread, *)
(* and none of them awaits, so each is one action.                         *)
(*                                                                         *)
(* An event is a record with the fields id, type, status, timestamp and    *)
(* severity.  The free-text fields of a generated event (location, cardId, *)
(* ipAddress, description) are written once and never read by the server,  *)
(* and are left out.  A timestamp is the clock reading in units of the     *)
(* producer's interval; toISOString() of a Date keeps the order of the     *)
(* clock readings, so the numbers stand for the strings.  A generated id   *)
(* is a fresh number: the nine base-36 digits of Math.random() are taken   *)
(* not to collide.  An id, a timestamp or any other field sent by a client *)
(* is whatever the client chose.                                           *)
(*                                                                         *)
(* The module also holds the statistics and health singletons of           *)
(* server/routes/security-stats.ts (its text is client/App.tsx:1260-1350   *)
(* in this tree): stats, systemHealth, the 10000 ms drift timer and the    *)
(* handlers getSecurityStats, getSystemHealth and updateSecurityStats.     *)
(* A JSON value is tagged with its typeof; a percentage is kept in units   *)
(* of 1/Scale percent.                                                     *)
(*                                                                         *)
(* Last, server/routes/auth.ts: the users array and the handlers login,    *)
(* verifyToken and logout.  It keeps no state of its own beyond users; it  *)
(* reads Date.now(), here clock, in hours.  A token is the base64 of the   *)
(* text userId:timestamp and is kept as the parts of that text.            *)
(***************************************************************************)
EXTENDS Integers, Sequences, FiniteSets

VARIABLES
    securityEvents,  \* the array of security-events.ts:5, index 1 is the front
    now,             \* the clock: the number of producer intervals elapsed
    nextId,          \* the next id Math.random() hands out
    choices,         \* steps so far that took a free input (see MaxChoices)
    res,             \* the response written by the last step, NoResponse after a timer
    stats,           \* the stats object of security-stats.ts
    systemHealth,    \* the systemHealth object of security-stats.ts
    drifts,          \* firings of the drift timer so far
    held,            \* what a client keeps of a response it received
    clock,           \* Date.now() as auth.ts reads it, in hours
    issued           \* history: the tokens login has returned, and how

vars == <<securityEvents, now, nextId, choices, res,
          stats, systemHealth, drifts, held, clock, issued>>

\* Neither security-events.ts nor security-stats.ts names anything of
\* auth.ts; the hours pass in the step PassTime alone.
AuthFrame == UNCHANGED <<clock, issued>>

\* An events module that books every step of its own as a scan.
EventsFrame_Reconcile ==
    /\ stats' = [stats EXCEPT !.totalScans.n = @ + 1]
    /\ UNCHANGED <<systemHealth, drifts>>
    /\ AuthFrame

\* security-events.ts names nothing of security-stats.ts: its timer and its
\* handlers leave the stats module's state alone.
EventsFrame == UNCHANGED <<stats, systemHealth, drifts>> /\ AuthFrame

\* security-stats.ts names nothing of security-events.ts.
StatsFrame == UNCHANGED <<securityEvents, now, nextId>> /\ AuthFrame

---------------------------------------------------------------------------
(* Program constants *)

\* security-events.ts:53-54: the producer keeps the first 100 events.
MaxEvents == 100

\* security-events.ts:44: the store starts with 20 generated events.
SeedCount == 20

\* security-events.ts:59: page defaults to 1.
DefaultPage == 1

\* security-events.ts:60: limit defaults to 20.
DefaultLimit == 20

(* Bounds of the model *)

\* Producer firings explored.
MaxTicks == 81

\* Steps that may take a free input: an accepted request body, or a random
\* draw of the generator other than the most probable one.
MaxChoices == 2

\* Producer firings before the first free input: until then the generator
\* draws its most probable outcome and no request body is accepted, which
\* brings the store from its 20 seeds to the neighbourhood of the cap.
QuietTicks == 79

\* Largest page number requested.
MaxPage == 3

\* Largest limit requested.
MaxLimit == 50

\* A percentage is a whole number of 1/Scale percent.
Scale == 2

\* Firings of the drift timer explored when the stats module runs alone.
MaxDrifts == 11

\* Firings of the drift timer explored next to requests and clients.
EarlyDrifts == 1

---------------------------------------------------------------------------
(* Array.prototype.slice(start, end) on a sequence, with 0-based indices   *)
(* as in JavaScript: a negative index counts from the end, both indices    *)
(* are clamped to the length, and an empty range gives the empty array.    *)

Min(a, b) == IF a < b THEN a ELSE b

Max(a, b) == IF a > b THEN a ELSE b

RelIndex(i, len) == IF i < 0 THEN Max(len + i, 0) ELSE Min(i, len)

Slice(s, start, end) ==
    LET from == RelIndex(start, Len(s))
        to   == RelIndex(end, Len(s))
    IN  IF to <= from THEN <<>> ELSE SubSeq(s, from + 1, to)

\* An insertion at the other end: push(e).
Unshift_Append(s, e) == s \o <<e>>

\* Array.prototype.unshift(e): e becomes the first element.
Unshift(s, e) == <<e>> \o s

\* { ...defaults, ...body }: every field of body overrides the default.
Spread(defaults, body) ==
    [k \in DOMAIN defaults \cup DOMAIN body |->
        IF k \in DOMAIN body THEN body[k] ELSE defaults[k]]

---------------------------------------------------------------------------
(* generateMockEvent.  Its random draws are the record d: dos is           *)
(* Math.random() > 0.7 of line 10, ok is isAuthorized (line 13) or         *)
(* isBlocked (line 27), hi is Math.random() > 0.5 of line 21, drawn only   *)
(* for an unauthorized rfid event.                                         *)

Draws ==
    << [dos |-> FALSE, ok |-> TRUE,  hi |-> FALSE],
       [dos |-> FALSE, ok |-> FALSE, hi |-> TRUE],
       [dos |-> FALSE, ok |-> FALSE, hi |-> FALSE],
       [dos |-> TRUE,  ok |-> TRUE,  hi |-> FALSE],
       [dos |-> TRUE,  ok |-> FALSE, hi |-> FALSE] >>

\* The most probable draw: an authorized rfid read.
Baseline == Draws[1]

\* A generator that rates a blocked attack low.
generateMockEvent_BlockedLow(d, id, ts) ==
    IF ~d.dos
    THEN [id        |-> id,
          type      |-> "rfid",
          status    |-> IF d.ok THEN "authorized" ELSE "unauthorized",
          timestamp |-> ts,
          severity  |-> IF d.ok THEN "low" ELSE IF d.hi THEN "high" ELSE "medium"]
    ELSE [id        |-> id,
          type      |-> "dos",
          status    |-> IF d.ok THEN "blocked" ELSE "detected",
          timestamp |-> ts,
          severity  |-> IF d.ok THEN "low" ELSE "critical"]

generateMockEvent(d, id, ts) ==
    IF ~d.dos
    THEN [id        |-> id,
          type      |-> "rfid",
          status    |-> IF d.ok THEN "authorized" ELSE "unauthorized",
          timestamp |-> ts,
          severity  |-> IF d.ok THEN "low" ELSE IF d.hi THEN "high" ELSE "medium"]
    ELSE [id        |-> id,
          type      |-> "dos",
          status    |-> IF d.ok THEN "blocked" ELSE "detected",
          timestamp |-> ts,
          severity  |-> IF d.ok THEN "high" ELSE "critical"]

\* The draws of the 20 events generated at start: every outcome in turn.
SeedDraw(i) == Draws[((i - 1) % Len(Draws)) + 1]

NoResponse == [op |-> "none"]

\* securityEvents after the module has loaded.
SeedEvents == [i \in 1..SeedCount |-> generateMockEvent(SeedDraw(i), i, 0)]

---------------------------------------------------------------------------
(* The producer, security-events.ts:48-56. *)

\* Whether this step may take a free input (a bound of the model).
FreeInput == choices < MaxChoices /\ now >= QuietTicks

\* A trim that cuts one element too late: slice(0, 101).
KeepLast_OneTooMany(s) ==
    IF Len(s) > MaxEvents THEN Slice(s, 0, MaxEvents + 1) ELSE s

\* A trim that keeps the tail instead of the front: slice(-100).
KeepLast_Tail(s) ==
    IF Len(s) > MaxEvents THEN Slice(s, 0 - MaxEvents, Len(s)) ELSE s

\* A trim that keeps what is beyond the cap: slice(100).
KeepLast_Rest(s) ==
    IF Len(s) > MaxEvents THEN Slice(s, MaxEvents, Len(s)) ELSE s

\* if (securityEvents.length > 100) securityEvents = securityEvents.slice(0, 100)
KeepLast(s) == IF Len(s) > MaxEvents THEN Slice(s, 0, MaxEvents) ELSE s

Produce(s, newEvent) == KeepLast(Unshift(s, newEvent))

ProducerTick ==
    /\ now < MaxTicks
    /\ \E i \in 1..Len(Draws) :
          /\ Draws[i] = Baseline \/ FreeInput
          /\ securityEvents' =
                 Produce(securityEvents,
                         generateMockEvent(Draws[i], nextId, now + 1))
          /\ choices' = IF Draws[i] = Baseline THEN choices ELSE choices + 1
    /\ now' = now + 1
    /\ nextId' = nextId + 1
    /\ res' = NoResponse
    /\ EventsFrame
    /\ UNCHANGED held

---------------------------------------------------------------------------
(* getSecurityEvents, security-events.ts:58-74.  A query parameter is      *)
(* absent, a text that parseInt cannot read, or the decimal text of an     *)
(* integer.                                                                *)

Absent == [kind |-> "absent", val |-> 0]

Text == [kind |-> "text", val |-> 0]

Num(n) == [kind |-> "num", val |-> n]

\* parseInt(q): NaN unless q is the text of an integer.
ParseInt(q) ==
    IF q.kind = "num" THEN [nan |-> FALSE, val |-> q.val]
                      ELSE [nan |-> TRUE, val |-> 0]

\* A default that replaces NaN alone: parseInt(q) ?? d, were NaN nullish.
ParseIntOr_NaNOnly(q, d) ==
    LET p == ParseInt(q) IN IF p.nan THEN d ELSE p.val

\* parseInt(q) || d: NaN and 0 are falsy.
ParseIntOr(q, d) ==
    LET p == ParseInt(q) IN IF p.nan \/ p.val = 0 THEN d ELSE p.val

\* A start index that takes pages to count from 0.
StartIndex_FromZero(page, limit) == page * limit

StartIndex(page, limit) == (page - 1) * limit

\* An end index that takes slice's end to be inclusive.
EndIndex_Inclusive(page, limit) == StartIndex(page, limit) + limit + 1

\* An end index that stops one short: the last event of each page is lost.
EndIndex_Short(page, limit) == StartIndex(page, limit) + limit - 1

EndIndex(page, limit) == StartIndex(page, limit) + limit

\* A total that reports no more than the cap.
TotalOf_Capped(s) == Min(Len(s), MaxEvents)

TotalOf(s) == Len(s)

EventsResponse(s, query) ==
    LET page  == ParseIntOr(query.page, DefaultPage)
        limit == ParseIntOr(query.limit, DefaultLimit)
    IN  [events |-> Slice(s, StartIndex(page, limit), EndIndex(page, limit)),
         total  |-> TotalOf(s),
         page   |-> page,
         limit  |-> limit]

PageParams == {Num(n) : n \in 1..MaxPage}

LimitParams == {Num(1), Num(MaxLimit)}

\* Every shape of the page parameter, and of the limit parameter.
AnyPage == PageParams \cup {Absent, Text, Num(0)}

AnyLimit == LimitParams \cup {Absent, Text, Num(0)}

\* The handler on the requests whose parameters are of the sets P and L.
GetEvents(P, L) ==
    \E p \in P, l \in L :
        LET query == [page |-> p, limit |-> l] IN
        /\ res' = [op     |-> "getSecurityEvents",
                   req    |-> query,
                   status |-> 200,
                   body   |-> EventsResponse(securityEvents, query)]
        /\ UNCHANGED <<securityEvents, now, nextId, choices>>
        /\ EventsFrame
        /\ UNCHANGED held

getSecurityEvents == GetEvents(PageParams, LimitParams)

getSecurityEventsAny == GetEvents(AnyPage, AnyLimit)

---------------------------------------------------------------------------
(* addSecurityEvent, security-events.ts:76-95.  A request body is a record *)
(* holding the fields the client sent.                                     *)

\* !v for a string field: absent and the empty string are falsy.
Falsy(body, f) == f \notin DOMAIN body \/ body[f] = ""

\* A check that refuses only a body lacking both fields.
MissingRequired_Both(body) == Falsy(body, "type") /\ Falsy(body, "status")

\* if (!event.type || !event.status)
MissingRequired(body) == Falsy(body, "type") \/ Falsy(body, "status")

\* { id: ..., timestamp: new Date().toISOString(), severity: "medium", ...event }
NewEvent(body, id, ts) ==
    Spread([id |-> id, timestamp |-> ts, severity |-> "medium"], body)

Bodies ==
    { [type |-> "rfid", status |-> "authorized"],
      [type |-> "dos", status |-> "blocked", severity |-> "high", id |-> 1],
      [type |-> "rfid", status |-> "authorized", timestamp |-> 0],
      [type |-> "rfid", status |-> "blocked"],
      [status |-> "authorized"],
      [type |-> "rfid"],
      [type |-> "", status |-> "authorized"] }

BadRequest == [error |-> "Missing required fields: type, status"]

\* A submission that appends: push instead of unshift.
Submit_Push(s, newEvent) == s \o <<newEvent>>

\* A submission that trims as the producer does.
Submit_Trim(s, newEvent) == KeepLast(Unshift(s, newEvent))

\* securityEvents.unshift(newEvent), line 92: no trim follows.
Submit(s, newEvent) == Unshift(s, newEvent)

addSecurityEvent ==
    \E body \in Bodies :
        IF MissingRequired(body)
        THEN /\ res' = [op     |-> "addSecurityEvent",
                        req    |-> body,
                        status |-> 400,
                        body   |-> BadRequest]
             /\ UNCHANGED <<securityEvents, now, nextId, choices>>
             /\ EventsFrame
             /\ UNCHANGED held
        ELSE /\ FreeInput
             /\ LET newEvent == NewEvent(body, nextId, now) IN
                /\ securityEvents' = Submit(securityEvents, newEvent)
                /\ res' = [op     |-> "addSecurityEvent",
                           req    |-> body,
                           status |-> 201,
                           body   |-> newEvent]
             /\ nextId' = nextId + 1
             /\ choices' = choices + 1
             /\ UNCHANGED now
             /\ EventsFrame
             /\ UNCHANGED held

---------------------------------------------------------------------------
(* security-stats.ts (client/App.tsx:1260-1350): the state.                *)

\* A JSON number and a JSON string, tagged as typeof tells them apart.
N(v) == [t |-> "number", n |-> v, s |-> ""]

S(v) == [t |-> "string", n |-> 0, s |-> v]

\* let stats = { ... }, lines 1264-1271.
StatsSeed ==
    [totalScans        |-> N(1247),
     authorizedScans   |-> N(1156),
     unauthorizedScans |-> N(91),
     dosAttacks        |-> N(23),
     activeThreats     |-> N(2),
     systemStatus      |-> S("operational")]

\* let systemHealth = { ... }, lines 1273-1291.
HealthSeed ==
    [rfidReaders   |-> [online |-> 49, total |-> 50, percentage |-> 98 * Scale],
     dosProtection |-> [status |-> "active", percentage |-> 100 * Scale],
     database      |-> [status |-> "operational", percentage |-> 95 * Scale],
     network       |-> [status |-> "moderate", percentage |-> 75 * Scale]]

NoneHeld == [kind |-> "none"]

Init ==
    /\ securityEvents = SeedEvents
    /\ now = 0
    /\ nextId = SeedCount + 1
    /\ choices = 0
    /\ res = NoResponse
    /\ stats = StatsSeed
    /\ systemHealth = HealthSeed
    /\ drifts = 0
    /\ held = NoneHeld
    /\ clock = 0
    /\ issued = {}

---------------------------------------------------------------------------
(* The drift timer, lines 1294-1327.  Its random draws: for the stats, sd  *)
(* with scan = Math.random() > 0.7 (line 1296), k = Math.floor(            *)
(* Math.random() * 3) + 1 (line 1297), unauth = Math.random() > 0.8 (line  *)
(* 1298) and dos = Math.random() > 0.9 (line 1304); for the gauges, the    *)
(* level hd of the three Math.random() of lines 1314, 1320 and 1325, taken *)
(* at the two ends of their range.                                         *)

StatsDraws ==
    << [scan |-> FALSE, k |-> 1, unauth |-> FALSE, dos |-> FALSE],
       [scan |-> TRUE,  k |-> 1, unauth |-> FALSE, dos |-> FALSE],
       [scan |-> TRUE,  k |-> 2, unauth |-> TRUE,  dos |-> FALSE],
       [scan |-> TRUE,  k |-> 3, unauth |-> FALSE, dos |-> TRUE] >>

\* The most probable draw: no update of the stats on this firing.
NoScan == StatsDraws[1]

HealthDraws == <<"lo", "hi">>

\* (Math.random() - 0.5) * w, a number of [-w/2, w/2), on the grid.
Nudge(w, level) ==
    IF level = "lo" THEN 0 - ((w * Scale) \div 2) ELSE (w * Scale - 1) \div 2

\* Math.max(lo, Math.min(hi, x))
Clamp(lo, hi, x) == Max(lo, Min(hi, x))

\* A drift that books the scans on the wrong side: -= for +=.
DriftStats_Decrement(s, d) ==
    IF ~d.scan THEN s
    ELSE [s EXCEPT !.totalScans = N(@.n - d.k)]

\* Lines 1296-1307.
DriftStats(s, d) ==
    IF ~d.scan THEN s
    ELSE LET s1 == [s EXCEPT !.totalScans = N(@.n + d.k)]
             s2 == IF d.unauth
                   THEN [s1 EXCEPT !.unauthorizedScans = N(@.n + 1)]
                   ELSE [s1 EXCEPT !.authorizedScans = N(@.n + 1)]
         IN  IF d.dos THEN [s2 EXCEPT !.dosAttacks = N(@.n + 1)] ELSE s2

\* A drift that forgets the lower clamps: Math.min alone.
DriftHealth_NoFloor(h, level) ==
    [h EXCEPT
        !.rfidReaders.percentage = Min(100 * Scale, @ + Nudge(2, level)),
        !.network.percentage     = Min(95 * Scale, @ + Nudge(5, level)),
        !.database.percentage    = Min(100 * Scale, @ + Nudge(2, level))]

\* Lines 1310-1326.
DriftHealth(h, level) ==
    [h EXCEPT
        !.rfidReaders.percentage =
            Clamp(95 * Scale, 100 * Scale, @ + Nudge(2, level)),
        !.network.percentage =
            Clamp(60 * Scale, 95 * Scale, @ + Nudge(5, level)),
        !.database.percentage =
            Clamp(90 * Scale, 100 * Scale, @ + Nudge(2, level))]

\* The callback with its draws.
Drift(sd, level) ==
    /\ stats' = DriftStats(stats, sd)
    /\ systemHealth' = DriftHealth(systemHealth, level)
    /\ drifts' = drifts + 1
    /\ res' = NoResponse
    /\ StatsFrame
    /\ UNCHANGED held

\* The firing due at 10000 ms * (drifts + 1), next to the producer, whose
\* interval is half of that: under the bound on free inputs, and with the
\* draws of the gauges going down and up in turn with those of the stats.
DriftTick ==
    /\ drifts < now \div 2
    /\ \E i \in 1..Len(StatsDraws) :
          LET free == StatsDraws[i] # NoScan
              j    == ((i - 1) % Len(HealthDraws)) + 1
          IN  /\ free => FreeInput
              /\ Drift(StatsDraws[i], HealthDraws[j])
              /\ choices' = IF free THEN choices + 1 ELSE choices

\* The firings of the stats module running alone, every draw free.
DriftAlone(limit) ==
    /\ drifts < limit
    /\ \E i \in 1..Len(StatsDraws), j \in 1..Len(HealthDraws) :
          Drift(StatsDraws[i], HealthDraws[j])
    /\ UNCHANGED choices

---------------------------------------------------------------------------
(* The handlers, lines 1329-1350.  { ...obj } makes a new object whose     *)
(* fields are those of obj: a field that is an object is the same object,  *)
(* here a reference Ref(name) to the record stored under that name.        *)
(* res.json(obj) writes JSON.stringify(obj) at once: the text holds the    *)
(* values the references have at that moment.                              *)

Ref(name) == [ref |-> name]

IsRef(v) == "ref" \in DOMAIN v

\* { ...stats }: every field is a number or a string.
CopyOfStats(s) == s

\* { ...systemHealth }: every field is an object.
CopyOfHealth(h) == [k \in DOMAIN h |-> Ref(k)]

\* A response that hands out the live object.
Json_Live(obj, store) == obj

\* res.json(obj), with store the objects the references point to.
Json(obj, store) ==
    [k \in DOMAIN obj |-> IF IsRef(obj[k]) THEN store[obj[k].ref] ELSE obj[k]]

getSecurityStats ==
    /\ res' = [op     |-> "getSecurityStats",
               status |-> 200,
               body   |-> Json(CopyOfStats(stats), systemHealth)]
    /\ UNCHANGED <<stats, systemHealth, drifts, choices, held>>
    /\ StatsFrame

getSystemHealth ==
    /\ res' = [op     |-> "getSystemHealth",
               status |-> 200,
               body   |-> Json(CopyOfHealth(systemHealth), systemHealth)]
    /\ UNCHANGED <<stats, systemHealth, drifts, choices, held>>
    /\ StatsFrame

\* Properties every object inherits from Object.prototype.
ObjectPrototypeKeys == {"constructor", "toString", "valueOf", "hasOwnProperty"}

\* key in stats
KnownKey(s, k) == k \in DOMAIN s \/ k \in ObjectPrototypeKeys

\* key in stats && typeof updates[key] === "number"
Accepted(s, updates, k) ==
    k \in DOMAIN updates /\ KnownKey(s, k) /\ updates[k].t = "number"

\* Lines 1343-1347.
UpdateStats(s, updates) ==
    [k \in DOMAIN s \cup {u \in DOMAIN updates : Accepted(s, updates, u)} |->
        IF Accepted(s, updates, k) THEN updates[k] ELSE s[k]]

StatsBodies ==
    { [dosAttacks |-> N(5)],
      [totalScans |-> N(0), foo |-> N(1)],
      [activeThreats |-> S("7"), bar |-> S("x")],
      [systemStatus |-> S("critical")],
      [systemStatus |-> N(5)],
      [constructor |-> N(1)] }

\* The bodies sent while the events module runs as well: a counter, and
\* nothing the handler accepts.
FewStatsBodies ==
    { [dosAttacks |-> N(5)],
      [activeThreats |-> S("7"), bar |-> S("x")] }

\* The request under a bound: bodies are those sent, and free says whether
\* one that changes the stats may still be taken.
UpdateRequest(bodies, free) ==
    \E updates \in bodies :
        LET new == UpdateStats(stats, updates) IN
        /\ new # stats => free
        /\ stats' = new
        /\ choices' = IF new # stats THEN choices + 1 ELSE choices
        /\ res' = [op     |-> "updateSecurityStats",
                   req    |-> updates,
                   status |-> 200,
                   body   |-> Json(new, systemHealth)]
        /\ UNCHANGED <<systemHealth, drifts, held>>
        /\ StatsFrame

updateSecurityStats == UpdateRequest(FewStatsBodies, FreeInput)

---------------------------------------------------------------------------
(* A client of the stats module: it keeps the body of the response it has  *)
(* just received, and may write into what it keeps.  A write through a     *)
(* reference lands in the object referred to.                              *)

HasChoice == choices < MaxChoices

ClientKeep ==
    /\ HasChoice
    /\ res.op \in {"getSecurityStats", "getSystemHealth"}
    /\ held' = [kind |-> res.op, value |-> res.body]
    /\ choices' = choices + 1
    /\ res' = [op |-> "client"]
    /\ UNCHANGED <<stats, systemHealth, drifts>>
    /\ StatsFrame

ClientWrite ==
    /\ held.kind # "none"
    /\ res' = [op |-> "client"]
    /\ IF held.kind = "getSecurityStats"
       THEN /\ held' = [held EXCEPT !.value.totalScans = N(0)]
            /\ UNCHANGED systemHealth
       ELSE IF IsRef(held.value.rfidReaders)
       THEN /\ systemHealth' = [systemHealth EXCEPT !.rfidReaders.percentage = 0]
            /\ UNCHANGED held
       ELSE /\ held' = [held EXCEPT !.value.rfidReaders.percentage = 0]
            /\ UNCHANGED systemHealth
    /\ UNCHANGED <<stats, drifts, choices>>
    /\ StatsFrame

\* What the client reads in what it keeps.
View(h, store) ==
    IF h.kind = "none" THEN h
    ELSE [kind |-> h.kind, value |-> Json(h.value, store)]

---------------------------------------------------------------------------
(* auth.ts.                                                                *)

\* const users = [ ... ], lines 5-18.
users ==
    << [id |-> "1", username |-> "admin", password |-> "admin123",
        role |-> "administrator"],
       [id |-> "2", username |-> "security", password |-> "secure456",
        role |-> "security_officer"] >>

\* 24 * 60 * 60 * 1000 ms, in hours (line 102).
maxAge == 24

\* The days the login form promises to remember a user for.
RememberDays == 30

\* The instants at which the auth module is observed, in hours: a token
\* issued at one of the first two is seen at its 24th and at its 25th
\* hour, and on its 30th day.
Instants == <<0, 1, maxAge, maxAge + 1, maxAge + 2, RememberDays * 24>>

\* The rest of the server, which auth.ts does not name.
OutsideAuth ==
    UNCHANGED <<securityEvents, now, nextId, stats, systemHealth, drifts, held>>

\* Time passes to the next instant.
PassTime ==
    /\ \E i \in 1..Len(Instants) :
          /\ Instants[i] > clock
          /\ \A j \in 1..Len(Instants) :
                 Instants[j] > clock => Instants[i] <= Instants[j]
          /\ clock' = Instants[i]
    /\ res' = NoResponse
    /\ UNCHANGED <<issued, choices>>
    /\ OutsideAuth

\* Buffer.from(`${userId}:${Date.now()}`).toString('base64'), lines 21-23.
generateToken(userId, t) == [userId |-> userId, timestamp |-> Num(t)]

\* users.find(pred), given the indices of the users that satisfy pred:
\* the first of them, 0 for undefined.
Find(hits) ==
    IF hits = {} THEN 0 ELSE CHOOSE i \in hits : \A j \in hits : i <= j

\* { id, username, role } of a user, lines 63-67 and 115-119.
Identity(u) == [id |-> u.id, username |-> u.username, role |-> u.role]

\* A check that takes the password of any user for the one found.
PasswordOk_OfAnyUser(user, password) ==
    \E i \in 1..Len(users) : users[i].password = password

\* user.password !== password, line 49, negated.
PasswordOk(user, password) == user.password = password

\* The response of login to a body, at time t.
LoginResponse(body, t) ==
    IF Falsy(body, "username") \/ Falsy(body, "password")
    THEN [status |-> 400,
          body |-> [success |-> FALSE,
                    message |-> "Username and password are required"]]
    ELSE LET i == Find({j \in 1..Len(users) :
                            users[j].username = body.username})
         IN  IF i = 0 \/ ~PasswordOk(users[i], body.password)
             THEN [status |-> 401,
                   body |-> [success |-> FALSE,
                             message |-> "Invalid username or password"]]
             ELSE [status |-> 200,
                   body |-> [success |-> TRUE,
                             token   |-> generateToken(users[i].id, t),
                             user    |-> Identity(users[i]),
                             message |-> "Login successful"]]

LoginBodies ==
    { [username |-> "admin", password |-> "admin123"],
      [username |-> "admin", password |-> "admin123", rememberMe |-> TRUE],
      [username |-> "security", password |-> "secure456"],
      [username |-> "security", password |-> "secure456", rememberMe |-> TRUE],
      [username |-> "admin", password |-> "secure456"],
      [username |-> "security", password |-> "wrong"],
      [username |-> "mallory", password |-> "admin123"],
      [username |-> "admin"],
      [password |-> "admin123"],
      [username |-> "", password |-> "admin123"],
      [username |-> "admin", password |-> ""],
      [rememberMe |-> TRUE] }

\* Whether the body asks to be remembered.
Remember(body) == "rememberMe" \in DOMAIN body /\ body.rememberMe

login ==
    \E body \in LoginBodies :
        LET r == LoginResponse(body, clock) IN
        /\ r.status = 200 => HasChoice
        /\ res' = [op |-> "login", req |-> body,
                   status |-> r.status, body |-> r.body]
        /\ issued' = IF r.status = 200
                     THEN issued \cup {[token    |-> r.body.token,
                                        remember |-> Remember(body)]}
                     ELSE issued
        /\ choices' = IF r.status = 200 THEN choices + 1 ELSE choices
        /\ UNCHANGED clock
        /\ OutsideAuth

\* The Authorization header: none, or a scheme and what follows it.
NoHeader == [scheme |-> "", token |-> [userId |-> "", timestamp |-> Absent]]

Header(scheme, token) == [scheme |-> scheme, token |-> token]

\* Date.now() - parseInt(timestamp) > maxAge, lines 101-104: NaN compares
\* false with every number.
Expired(token, t) ==
    LET p == ParseInt(token.timestamp) IN ~p.nan /\ t - p.val > maxAge

\* The response of verifyToken to a header, at time t.
VerifyResponse(header, t) ==
    IF header.scheme # "Bearer "
    THEN [status |-> 401, body |-> [error |-> "No token provided"]]
    ELSE IF Expired(header.token, t)
    THEN [status |-> 401, body |-> [error |-> "Token expired"]]
    ELSE LET i == Find({j \in 1..Len(users) :
                            users[j].id = header.token.userId})
         IN  IF i = 0
             THEN [status |-> 401, body |-> [error |-> "Invalid token"]]
             ELSE [status |-> 200,
                   body |-> [valid |-> TRUE, user |-> Identity(users[i])]]

\* The tokens a client can write without asking the server: the base64 of
\* any text of its choice.
Forged(t) ==
    { [userId |-> u, timestamp |-> x] :
          u \in {"1", "9"}, x \in {Absent, Text, Num(t), Num(0)} }

\* The headers sent at time t: none, a token under another scheme, and a
\* Bearer token, either one that login returned or one the client wrote.
Headers(t) ==
    {NoHeader}
        \cup {Header("Basic ", i.token) : i \in issued}
        \cup {Header("Bearer ", i.token) : i \in issued}
        \cup {Header("Bearer ", f) : f \in Forged(t)}

verifyToken ==
    \E header \in Headers(clock) :
        LET r == VerifyResponse(header, clock) IN
        /\ res' = [op |-> "verifyToken", req |-> header,
                   status |-> r.status, body |-> r.body]
        /\ UNCHANGED <<clock, issued, choices>>
        /\ OutsideAuth

\* A logout that clears the data of the server with the session.
logout_Reset ==
    /\ res' = [op |-> "logout", status |-> 200,
               body |-> [message |-> "Logged out successfully"]]
    /\ securityEvents' = <<>>
    /\ UNCHANGED <<clock, issued, choices>>
    /\ UNCHANGED <<now, nextId, stats, systemHealth, drifts, held>>

\* Lines 127-130.
logout ==
    /\ res' = [op |-> "logout", status |-> 200,
               body |-> [message |-> "Logged out successfully"]]
    /\ UNCHANGED <<clock, issued, choices>>
    /\ OutsideAuth

---------------------------------------------------------------------------
(* The server: both modules on one event loop.  The producer does not fire *)
(* while a firing of the drift timer is overdue.                           *)

Next ==
    \/ drifts >= now \div 2 /\ ProducerTick
    \/ getSecurityEvents
    \/ addSecurityEvent
    \/ DriftTick
    \/ getSecurityStats
    \/ getSystemHealth
    \/ updateSecurityStats

Spec == Init /\ [][Next]_vars

(* The stats module alone, with a client, in its first firings. *)

NextStats ==
    \/ DriftAlone(EarlyDrifts)
    \/ getSecurityStats
    \/ getSystemHealth
    \/ UpdateRequest(StatsBodies, HasChoice)
    \/ ClientKeep
    \/ ClientWrite

SpecStats == Init /\ [][NextStats]_vars

(* The stats module alone, left to drift. *)

NextDrift ==
    \/ DriftAlone(MaxDrifts)
    \/ getSecurityStats
    \/ getSystemHealth

SpecDrift == Init /\ [][NextDrift]_vars

(* The events module alone, read with every shape of query. *)

NextQuery ==
    \/ ProducerTick
    \/ getSecurityEventsAny

SpecQuery == Init /\ [][NextQuery]_vars

(* The auth module alone, over the instants. *)

NextAuth ==
    \/ PassTime
    \/ login
    \/ verifyToken
    \/ logout

SpecAuth == Init /\ [][NextAuth]_vars

---------------------------------------------------------------------------
(* Properties *)

\* The steps, told apart by what they leave behind: every handler writes
\* its response, the producer is the only step that advances the clock.
IsRead(r) == r.op = "getSecurityEvents"

IsAdd(r) == r.op = "addSecurityEvent"

IsCreated(r) == IsAdd(r) /\ r.status = 201

\* A read whose page and limit parameters are both numbers >= 1.
PagedRead(r) ==
    /\ IsRead(r)
    /\ r.req.page.kind = "num" /\ r.req.page.val >= 1
    /\ r.req.limit.kind = "num" /\ r.req.limit.val >= 1

\* The elements of s at the 0-based indices [(page-1)*limit, (page-1)*limit+limit).
PageOf(s, page, limit) ==
    LET start == (page - 1) * limit
        n     == IF start >= Len(s) THEN 0
                 ELSE IF Len(s) - start < limit THEN Len(s) - start ELSE limit
    IN  [i \in 1..n |-> s[start + i]]

\* C1: a read with page >= 1 and limit >= 1 returns at most limit events, and
\* its total is the full length of the store, whatever the page and limit.
C1_PageSizeAndTotal ==
    PagedRead(res) =>
        /\ Len(res.body.events) <= res.req.limit.val
        /\ res.body.total = Len(securityEvents)

\* C1 witness: a read that returned a full page out of a store above the cap.
C1_Witness ==
    /\ PagedRead(res)
    /\ Len(res.body.events) = res.req.limit.val
    /\ res.body.total > MaxEvents
    /\ res.body.total = Len(securityEvents)

\* C2: a read with page >= 1 and limit >= 1 answers 200 with exactly the
\* events at indices [(page-1)*limit, (page-1)*limit+limit) of the store, in
\* store order (none when the start is at or beyond the length), and leaves
\* the store as it was.
C2_ContiguousSlice ==
    [][PagedRead(res') =>
          /\ res'.status = 200
          /\ res'.body.events =
                 PageOf(securityEvents, res'.req.page.val, res'.req.limit.val)
          /\ securityEvents' = securityEvents]_vars

\* C2 witness: a read that starts at the very end of a full store was
\* answered 200 with no events.
C2_Witness ==
    /\ PagedRead(res)
    /\ res.status = 200
    /\ Len(securityEvents) = MaxEvents
    /\ (res.req.page.val - 1) * res.req.limit.val = MaxEvents
    /\ res.body.events = <<>>

\* C3: a submission carrying type and status and nothing else is answered
\* 201 with an event that has a generated id, a generated timestamp,
\* severity "medium" and the type and status sent, and that event is the
\* first element of the store.
C3_Defaults ==
    (IsAdd(res) /\ DOMAIN res.req = {"type", "status"}
                /\ res.req.type # "" /\ res.req.status # "") =>
        /\ res.status = 201
        /\ res.body.id = nextId - 1
        /\ res.body.timestamp = now
        /\ res.body.severity = "medium"
        /\ res.body.type = res.req.type
        /\ res.body.status = res.req.status
        /\ securityEvents[1] = res.body

\* C3 witness: such a submission was accepted.
C3_Witness ==
    /\ IsCreated(res)
    /\ res.req = [type |-> "rfid", status |-> "authorized"]
    /\ securityEvents[1].severity = "medium"

\* C4: a submission without type or without status is answered 400 and the
\* store keeps its length, its events and their order.
C4_ValidationError ==
    [][(IsAdd(res') /\ ("type" \notin DOMAIN res'.req
                        \/ "status" \notin DOMAIN res'.req)) =>
          /\ res'.status = 400
          /\ securityEvents' = securityEvents]_vars

\* C4 witness: a submission without type was refused, with the store above
\* its seed size.
C4_Witness ==
    /\ IsAdd(res)
    /\ "type" \notin DOMAIN res.req
    /\ res.status = 400
    /\ Len(securityEvents) > SeedCount

\* C5 as claimed: the store never holds more than 100 events.
C5_AtMost100 == Len(securityEvents) <= MaxEvents

\* C5 as amended: right after every firing of the producer the store holds
\* at most 100 events.
C5_CapAfterTick ==
    [][now' # now => Len(securityEvents') <= MaxEvents]_vars

\* C5 witness: the producer has fired with the store full, and events have
\* been evicted.
C5_Witness ==
    /\ res = NoResponse
    /\ now > MaxEvents - SeedCount
    /\ Len(securityEvents) = MaxEvents
    /\ securityEvents[MaxEvents].id < SeedCount

\* An event only a client can have sent: the generator never pairs rfid
\* with blocked.
ClientSent(e) == e.type = "rfid" /\ e.status = "blocked"

\* C6: one firing of the producer puts exactly one new event at the front
\* and keeps the first 100 of the result: the length becomes
\* min(previous length + 1, 100), also from above 100.
C6_TickInsertsAndTrims ==
    [][now' # now =>
          LET n == Min(Len(securityEvents) + 1, MaxEvents) IN
          /\ Len(securityEvents') = n
          /\ securityEvents'[1].id = nextId
          /\ securityEvents'[1].timestamp = now'
          /\ \A i \in 2..n : securityEvents'[i] = securityEvents[i - 1]]_vars

\* C6 witness: the producer has just fired on a store that two submissions
\* after the previous firing had taken to 102, and left 100.
C6_Witness ==
    /\ res = NoResponse
    /\ now > MaxEvents - SeedCount
    /\ Len(securityEvents) = MaxEvents
    /\ securityEvents[1].id = nextId - 1
    /\ ClientSent(securityEvents[2])
    /\ ClientSent(securityEvents[3])

\* C7: an accepted submission lengthens the store by exactly one, at the
\* front, and trims nothing, whatever the length; the length passes 100
\* only by an accepted submission, and the next firing of the producer
\* brings it back to at most 100.
C7_SubmitNeverTrims ==
    [][/\ IsCreated(res') =>
              securityEvents' = <<res'.body>> \o securityEvents
       /\ (Len(securityEvents) <= MaxEvents /\ Len(securityEvents') > MaxEvents)
              => IsCreated(res')
       /\ now' # now => Len(securityEvents') <= MaxEvents]_vars

\* C7 witness: two submissions in a row on a full store: 102 events.
C7_Witness ==
    /\ IsCreated(res)
    /\ Len(securityEvents) = MaxEvents + 2

C9_UniqueIds ==
    \A i, j \in 1..Len(securityEvents) :
        securityEvents[i].id = securityEvents[j].id => i = j

\* C10 as claimed: the events a read returns are in descending order of
\* timestamp.
C10_NewestFirst ==
    IsRead(res) =>
        \A i \in 1..Len(res.body.events) - 1 :
            res.body.events[i].timestamp >= res.body.events[i + 1].timestamp

---------------------------------------------------------------------------
(* The stats module.                                                       *)

IsUpdate(r) == r.op = "updateSecurityStats"

IsClient(r) == r.op = "client"

\* The numeric counters of SecurityStats (shared/api.ts).
Counters ==
    {"totalScans", "authorizedScans", "unauthorizedScans", "dosAttacks",
     "activeThreats"}

\* A field of the body names a counter and its value is a number.
Settable(updates, k) ==
    k \in Counters /\ k \in DOMAIN updates /\ updates[k].t = "number"

\* C11 as claimed: an update sets every field of the body that names a
\* counter and is a number to exactly that value, and leaves every other
\* field of the stats as it was (no field added); unknown names and values
\* that are not numbers are ignored; it is answered 200 with the resulting
\* stats, and the same body again changes nothing.
C11_OverwriteKnownCounters ==
    [][IsUpdate(res') =>
          /\ DOMAIN stats' = DOMAIN stats
          /\ \A k \in DOMAIN stats :
                 stats'[k] = IF Settable(res'.req, k) THEN res'.req[k]
                                                       ELSE stats[k]
          /\ res'.status = 200
          /\ res'.body = stats'
          /\ UpdateStats(stats', res'.req) = stats']_vars

\* C12: in a step that is not an update request, no counter decreases.
C12_CountersOnlyIncrease ==
    [][~IsUpdate(res') =>
          \A k \in Counters : stats'[k].n >= stats[k].n]_vars

\* C12 witness: a firing of the drift timer has just counted three scans.
C12_Witness ==
    /\ res = NoResponse
    /\ drifts > 0
    /\ stats.totalScans.n = StatsSeed.totalScans.n + 3
    /\ stats.dosAttacks.n = StatsSeed.dosAttacks.n + 1

\* C13: what a client holds of a response of getSecurityStats or
\* getSystemHealth reads the same after every step of the server, and a
\* step of the client, writes into the nested records included, leaves
\* the stats and the health of the server as they were.
C13_SnapshotCopies ==
    [][/\ ~IsClient(res') =>
              View(held', systemHealth') = View(held, systemHealth)
       /\ IsClient(res') =>
              /\ stats' = stats
              /\ systemHealth' = systemHealth]_vars

\* C13 witness: a client holds a health response into whose rfidReaders
\* record it has written, the server has drifted since, and the server's
\* rfidReaders record is untouched by the write.
C13_Witness ==
    /\ held.kind = "getSystemHealth"
    /\ held.value.rfidReaders.percentage = 0
    /\ held.value.network # systemHealth.network
    /\ systemHealth.rfidReaders.percentage >= 95 * Scale

\* C14: the gauges stay within their clamps: rfidReaders in [95, 100],
\* network in [60, 95], database in [90, 100].
C14_GaugesWithinClamps ==
    /\ systemHealth.rfidReaders.percentage \in (95 * Scale)..(100 * Scale)
    /\ systemHealth.network.percentage \in (60 * Scale)..(95 * Scale)
    /\ systemHealth.database.percentage \in (90 * Scale)..(100 * Scale)

\* C14 witness: after enough downward nudges for each gauge to have passed
\* its lower clamp, had it not been clamped, the three are at their floors.
C14_Witness ==
    /\ drifts * Nudge(2, "lo") < (95 - 98) * Scale
    /\ drifts * Nudge(5, "lo") < (60 - 75) * Scale
    /\ drifts * Nudge(2, "lo") < (90 - 95) * Scale
    /\ systemHealth.rfidReaders.percentage = 95 * Scale
    /\ systemHealth.network.percentage = 60 * Scale
    /\ systemHealth.database.percentage = 90 * Scale

\* C15: a submission and a firing of the producer leave the stats and the
\* health as they were; an update request and a firing of the drift timer
\* leave the event store as it was.
C15_IndependentStores ==
    [][/\ (IsAdd(res') \/ now' # now) =>
              /\ stats' = stats
              /\ systemHealth' = systemHealth
       /\ (IsUpdate(res') \/ drifts' # drifts) =>
              securityEvents' = securityEvents]_vars

\* C15 witness: an accepted submission on a full store, after an update
\* request and firings of the drift timer that changed the stats and the
\* health: both stores have moved, each by its own operations.
C15_Witness ==
    /\ IsCreated(res)
    /\ Len(securityEvents) = MaxEvents + 1
    /\ stats.dosAttacks = N(5)
    /\ drifts > 0
    /\ systemHealth # HealthSeed

---------------------------------------------------------------------------
(* The query parameters.                                                   *)

\* The value the handler is to use for a parameter q whose default is d.
Effective(q, d) == IF q.kind = "num" /\ q.val # 0 THEN q.val ELSE d

\* C16: a read uses page 1 when the page parameter is absent, is not a
\* number or is 0, and limit 20 when the limit parameter is; otherwise the
\* numbers sent; the response carries the page and the limit it used, and
\* its events are those of that page.
C16_QueryDefaults ==
    IsRead(res) =>
        /\ res.body.page = Effective(res.req.page, 1)
        /\ res.body.limit = Effective(res.req.limit, 20)
        /\ res.body.events =
               PageOf(securityEvents, res.body.page, res.body.limit)

\* C16 witness: each default was taken for each reason, and the first 20
\* events came back.
C16_Witness ==
    /\ IsRead(res)
    /\ res.req.page \in {Absent, Text, Num(0)}
    /\ res.req.limit \in {Absent, Text, Num(0)}
    /\ res.req.page # res.req.limit
    /\ res.body.page = 1
    /\ res.body.limit = 20
    /\ Len(res.body.events) = 20
    /\ Len(securityEvents) > 20

---------------------------------------------------------------------------
(* The auth module.                                                        *)

IsLogin(r) == r.op = "login"

IsVerify(r) == r.op = "verifyToken"

\* The body carries a username and a password.
Present(body) == ~Falsy(body, "username") /\ ~Falsy(body, "password")

\* The body carries the username and the password of the user u.
Matches(body, u) ==
    Present(body) /\ u.username = body.username /\ u.password = body.password

\* The tokens login has returned, with or without rememberMe.
IssuedTokens == {i.token : i \in issued}

C18_SessionsExpire ==
    (IsVerify(res) /\ res.req.scheme = "Bearer ") =>
        LET token == res.req.token IN
        /\ token \in IssuedTokens =>
               /\ res.status = 200 <=> clock - token.timestamp.val <= maxAge
               /\ res.status = 200 =>
                      /\ res.body.valid
                      /\ res.body.user.id = token.userId
        /\ (token.timestamp.kind # "num"
                \/ clock - token.timestamp.val > maxAge) => res.status = 401

\* C19 as claimed: a token of a login with rememberMe is reported valid
\* during 30 days from the login.
C19_RememberMe ==
    (/\ IsVerify(res)
     /\ res.req.scheme = "Bearer "
     /\ \E i \in issued :
            /\ i.remember
            /\ i.token = res.req.token
            /\ clock - i.token.timestamp.val <= RememberDays * 24)
        => res.status = 200

\* C20 as claimed: verifyToken reports valid only a token that login has
\* returned.
C20_OnlyIssuedTokens ==
    (IsVerify(res) /\ res.status = 200) => res.req.token \in IssuedTokens

---------------------------------------------------------------------------
(* The operations as steps.                                                *)

\* s is a run of consecutive elements of t.
IsRunOf(s, t) ==
    \E start \in 0..Len(t) :
        /\ start + Len(s) <= Len(t)
        /\ \A i \in 1..Len(s) : s[i] = t[start + i]

\* C21: every step is one whole operation: a firing of one timer, which
\* writes no response, or one handler; and whatever the steps before it, a
\* read answers from the store as it is in the state it is taken in: its
\* total is the length of that store, its events are a run of consecutive
\* events of that store, and it changes nothing.
C21_AtomicOperations ==
    [][/\ now' # now => (drifts' = drifts /\ res' = NoResponse)
       /\ drifts' # drifts => (now' = now /\ res' = NoResponse)
       /\ IsRead(res') =>
              /\ res'.body.total = Len(securityEvents)
              /\ IsRunOf(res'.body.events, securityEvents)
              /\ UNCHANGED <<securityEvents, now, nextId, stats,
                             systemHealth, drifts>>]_vars

\* C21 witness: a read taken between a submission that took the store to
\* 101 events and the firing that trims it: total 101, and the third page
\* of 50 holds the one event beyond the cap.
C21_Witness ==
    /\ IsRead(res)
    /\ res.body.total = MaxEvents + 1
    /\ Len(securityEvents) = MaxEvents + 1
    /\ res.req.limit = Num(MaxLimit)
    /\ Len(res.body.events) = 1
    /\ res.body.events[1] = securityEvents[MaxEvents + 1]

\* C22 as claimed: totalScans = authorizedScans + unauthorizedScans, after
\* any number of firings of the drift timer.
C22_ScansAddUp ==
    stats.totalScans.n = stats.authorizedScans.n + stats.unauthorizedScans.n

\* C24 as claimed: rfidReaders.percentage = 100 * online / total.
C24_PercentageDerived ==
    systemHealth.rfidReaders.percentage * systemHealth.rfidReaders.total =
        100 * Scale * systemHealth.rfidReaders.online

\* C25 as claimed: the stored systemStatus is one of operational, warning,
\* critical.
C25_StatusIsEnum ==
    stats.systemStatus \in {S("operational"), S("warning"), S("critical")}

---------------------------------------------------------------------------
(* The health record under drift.                                          *)

\* The levels a firing can draw.
Levels == {HealthDraws[j] : j \in 1..Len(HealthDraws)}

\* What of the health record is no percentage: the four statuses and the
\* counts of the readers.
Fixed(h) ==
    [rfidOnline  |-> h.rfidReaders.online,
     rfidTotal   |-> h.rfidReaders.total,
     dosStatus   |-> h.dosProtection.status,
     dbStatus    |-> h.database.status,
     netStatus   |-> h.network.status]

\* The three gauges of h nudged at the level l and clamped.
ThreeNudged(h, g, l) ==
    /\ g.rfidReaders.percentage =
           Clamp(95 * Scale, 100 * Scale,
                 h.rfidReaders.percentage + Nudge(2, l))
    /\ g.network.percentage =
           Clamp(60 * Scale, 95 * Scale, h.network.percentage + Nudge(5, l))
    /\ g.database.percentage =
           Clamp(90 * Scale, 100 * Scale, h.database.percentage + Nudge(2, l))

\* C23 as claimed: a firing nudges and clamps each of the four gauges,
\* dosProtection within the range of a percentage, and the statuses and
\* the counts keep their seed values.
C23_FourGaugesDrift ==
    [][/\ drifts' # drifts =>
              \E l \in Levels :
                  /\ ThreeNudged(systemHealth, systemHealth', l)
                  /\ systemHealth'.dosProtection.percentage =
                         Clamp(0, 100 * Scale,
                               systemHealth.dosProtection.percentage
                                   + Nudge(2, l))
       /\ Fixed(systemHealth') = Fixed(HealthSeed)]_vars

---------------------------------------------------------------------------
(* The synthetic events: in SpecQuery the store holds no others.           *)

\* C26 as claimed: an authorized or blocked event is never high or
\* critical, and an unauthorized or detected event is never low.
C26_SeverityBySide ==
    \A i \in 1..Len(securityEvents) :
        LET e == securityEvents[i] IN
        /\ e.status \in {"authorized", "blocked"} =>
               e.severity \notin {"high", "critical"}
        /\ e.status \in {"unauthorized", "detected"} => e.severity # "low"

\* C26, amended: the severity of a synthetic event goes by its status:
\* authorized is low, unauthorized is medium or high, blocked is high and
\* detected is critical; so only authorized events are on the low side.
C26_SeverityByStatus ==
    \A i \in 1..Len(securityEvents) :
        LET e == securityEvents[i] IN
        /\ e.status \in {"authorized", "unauthorized", "blocked", "detected"}
        /\ e.status = "authorized" => e.severity = "low"
        /\ e.status = "unauthorized" => e.severity \in {"medium", "high"}
        /\ e.status = "blocked" => e.severity = "high"
        /\ e.status = "detected" => e.severity = "critical"

\* C26 witness: a firing has just produced a blocked attack, rated high,
\* and the store holds events of the four statuses.
C26_Witness ==
    /\ res = NoResponse
    /\ now > 0
    /\ securityEvents[1].id = nextId - 1
    /\ securityEvents[1].status = "blocked"
    /\ securityEvents[1].severity = "high"
    /\ \A st \in {"authorized", "unauthorized", "detected"} :
           \E i \in 1..Len(securityEvents) : securityEvents[i].status = st

---------------------------------------------------------------------------
(* The store as a log.                                                     *)

\* s is the first Len(s) elements of t, in their order.
IsPrefixOf(s, t) ==
    /\ Len(s) <= Len(t)
    /\ \A i \in 1..Len(s) : s[i] = t[i]

\* C27: a step that changes the store puts one new event at the front and
\* keeps behind it the events it had, in their order, from the front on:
\* what it drops is a run at the tail, the events that were inserted
\* first.  Only a firing of the producer or an accepted submission changes
\* the store, and only a firing of the producer drops events.
C27_InsertionOrderLog ==
    [][securityEvents' # securityEvents =>
          /\ Len(securityEvents') >= 1
          /\ IsPrefixOf(Tail(securityEvents'), securityEvents)
          /\ now' # now \/ IsCreated(res')
          /\ (IsCreated(res') /\ now' = now) =>
                 Tail(securityEvents') = securityEvents
          /\ IsCreated(res') => securityEvents'[1] = res'.body]_vars

\* C27 witness: a firing has just dropped the last events of a store that
\* two submissions had taken above the cap; the events sent by the client
\* are still there, behind the new front, and the seeds inserted first are
\* gone.
C27_Witness ==
    /\ res = NoResponse
    /\ Len(securityEvents) = MaxEvents
    /\ securityEvents[1].id = nextId - 1
    /\ nextId - 1 = MaxEvents + 3
    /\ \E i \in 2..MaxEvents : ClientSent(securityEvents[i])
    /\ securityEvents[MaxEvents].id < SeedCount - 1

---------------------------------------------------------------------------
(* Paging through a store.                                                 *)

\* The limits paged with.
PagingLimits == {1, 3, DefaultLimit, MaxLimit}

\* The events the handler returns for the page p of the store s at limit l.
PageEvents(s, p, l) ==
    EventsResponse(s, [page |-> Num(p), limit |-> Num(l)]).events

\* ceil(total / limit)
LastPage(s, l) == (Len(s) + l - 1) \div l

\* The pages 1..p, one after the other.
RECURSIVE PagesUpTo(_, _, _)
PagesUpTo(s, p, l) ==
    IF p = 0 THEN <<>> ELSE PagesUpTo(s, p - 1, l) \o PageEvents(s, p, l)

\* C28: at each limit, the pages 1..ceil(total/limit) of the store of one
\* state are taken at disjoint runs of indices, each holds an event, one
\* after the other they are the whole store in its order, and the pages
\* after the last are empty.
C28_PagesPartitionStore ==
    \A l \in PagingLimits :
        LET last == LastPage(securityEvents, l) IN
        /\ PagesUpTo(securityEvents, last, l) = securityEvents
        /\ \A p \in 1..last :
               /\ PageEvents(securityEvents, p, l) # <<>>
               /\ PageEvents(securityEvents, p, l) =
                      SubSeq(securityEvents, (p - 1) * l + 1,
                             Min(p * l, Len(securityEvents)))
        /\ \A p \in (last + 1)..(last + 2) :
               PageEvents(securityEvents, p, l) = <<>>

\* C28 witness: the last page of a store of 99 events has been read at
\* the largest limit: it holds the events the pages before it left, fewer
\* than the limit.
C28_Witness ==
    /\ PagedRead(res)
    /\ Len(securityEvents) = MaxEvents - 1
    /\ res.req.limit.val = MaxLimit
    /\ res.req.page.val = LastPage(securityEvents, MaxLimit)
    /\ res.req.page.val > 1
    /\ res.body.events = PageEvents(securityEvents, res.req.page.val, MaxLimit)
    /\ Len(res.body.events) \in 1..(MaxLimit - 1)
    /\ Len(PagesUpTo(securityEvents, res.req.page.val - 1, MaxLimit))
           + Len(res.body.events) = Len(securityEvents)

---------------------------------------------------------------------------
(* Logout, and the floor of the store.                                     *)

IsLogout(r) == r.op = "logout"

\* The token is younger than maxAge at the hour t, or as old.
InAge(token, t) == t - token.timestamp.val <= maxAge

\* C29: a logout is answered 200 and changes nothing of the server: the
\* event store, the stats, the health and the clocks are as before, and
\* every token login has returned that is within its 24 hours is still
\* reported valid, for its user.
C29_LogoutChangesNothing ==
    [][IsLogout(res') =>
          /\ res'.status = 200
          /\ UNCHANGED <<securityEvents, now, nextId, stats, systemHealth,
                         drifts, clock, issued>>
          /\ \A i \in issued :
                 LET before == VerifyResponse(Header("Bearer ", i.token), clock)
                     after  == VerifyResponse(Header("Bearer ", i.token), clock')
                 IN  /\ after = before
                     /\ InAge(i.token, clock') =>
                            /\ after.status = 200
                            /\ after.body.user.id = i.token.userId]_vars

\* C29 witness: a logout has just been answered, hours after two logins,
\* and the token of each still verifies as valid.
C29_Witness ==
    /\ IsLogout(res)
    /\ clock > 0
    /\ Cardinality(IssuedTokens) = 2
    /\ \A i \in issued :
           /\ InAge(i.token, clock)
           /\ VerifyResponse(Header("Bearer ", i.token), clock).status = 200

\* C30: the store starts with the 20 seeds and never holds fewer; a step
\* shortens it only if it is a firing of the producer on a store above
\* the cap, and then to the cap; no read reports a total below 20.
C30_NeverBelowSeed ==
    /\ Len(securityEvents) = SeedCount
    /\ [](Len(securityEvents) >= SeedCount)
    /\ [](IsRead(res) => res.body.total >= SeedCount)
    /\ [][Len(securityEvents') < Len(securityEvents) =>
              /\ now' # now
              /\ Len(securityEvents) > MaxEvents
              /\ Len(securityEvents') = MaxEvents]_vars

\* C30 witness: a firing has cut a store of 102 events down to 100, and a
\* read reports the 100.
C30_Witness ==
    /\ IsRead(res)
    /\ res.body.total = MaxEvents
    /\ nextId - 1 = MaxEvents + 3
    /\ securityEvents[1].id = nextId - 1
    /\ securityEvents[MaxEvents].id < SeedCount - 1

====
